---- MODULE Spec2Model ----
(***************************************************************************)
(* A model of scripts/progress_dashboard.py: the PROGRESS.toml dashboard.  *)
(*                                                                         *)
(* Python strings are sequences of character codes (ord), so that str(),   *)
(* string comparison, upper(), clip() and textwrap.wrap() are computed the *)
(* way the interpreter computes them.  The text alphabet of the modelled   *)
(* inputs has no tab and no hyphen (textwrap treats those specially).      *)
(***************************************************************************)
EXTENDS Integers, Sequences, FiniteSets, TLC

(***************************************************************************)
(* Bounds of the model.                                                    *)
(***************************************************************************)
MaxEvents == 2      \* entries in the "events" array of a file
MaxRows == 5        \* terminal heights 2..MaxRows
MaxCols == 5        \* terminal widths 4..MaxCols
MaxTicks == 2       \* the clock stops after MaxTicks refresh intervals
MaxDetailScroll == 4 \* cap on detail_scroll (Down presses in a row in detail mode)
MaxMtime == 2       \* modification times are 1..MaxMtime
MaxDowns == 3       \* Down presses before Enter
MaxItems == 2       \* elements of a list value passed to format_field_value
MaxTotal == 6       \* list lengths, windows and scroll offsets adjust_scroll is tried on

(***************************************************************************)
(* Program constants.                                                      *)
(***************************************************************************)
REFRESH_SECONDS == 10
ts_width == 20
type_width == 10
WrapWidth == 76

\* Python's None in an Optional[float]: <<>>; a float t is <<t>>.
None == <<>>
Some(t) == <<t>>

(***************************************************************************)
(* Strings.                                                                *)
(***************************************************************************)
Max(a, b) == IF a >= b THEN a ELSE b
Min(a, b) == IF a <= b THEN a ELSE b

\* Python's str < str: code point by code point, a proper prefix is smaller.
RECURSIVE StrLess(_, _)
StrLess(a, b) ==
    IF b = <<>> THEN FALSE
    ELSE IF a = <<>> THEN TRUE
    ELSE IF Head(a) # Head(b) THEN Head(a) < Head(b)
    ELSE StrLess(Tail(a), Tail(b))

StrGeq(a, b) == ~StrLess(a, b)

\* str(n) of a non-negative int: its decimal digits.
RECURSIVE StrOfInt(_)
StrOfInt(n) ==
    IF n < 10 THEN <<48 + n>>
    ELSE StrOfInt(n \div 10) \o <<48 + (n % 10)>>

\* str.upper() on ASCII text.
Upper(s) == [i \in 1..Len(s) |-> IF s[i] >= 97 /\ s[i] <= 122 THEN s[i] - 32 ELSE s[i]]

RECURSIVE Concat(_)
Concat(ss) == IF ss = <<>> THEN <<>> ELSE Head(ss) \o Concat(Tail(ss))

\* String literals of the program.
S_ts == <<116, 115>>
S_type == <<116, 121, 112, 101>>
S_task == <<116, 97, 115, 107>>
S_summary == <<115, 117, 109, 109, 97, 114, 121>>
S_details == <<100, 101, 116, 97, 105, 108, 115>>
S_challenges == <<99, 104, 97, 108, 108, 101, 110, 103, 101, 115>>
S_solutions == <<115, 111, 108, 117, 116, 105, 111, 110, 115>>
S_decisions == <<100, 101, 99, 105, 115, 105, 111, 110, 115>>
S_tests == <<116, 101, 115, 116, 115>>
S_files == <<102, 105, 108, 101, 115>>
S_no_task == <<40, 110, 111, 32, 116, 97, 115, 107, 41>>
S_none == <<40, 110, 111, 110, 101, 41>>
S_empty == <<40, 101, 109, 112, 116, 121, 41>>
S_no_details == <<40, 110, 111, 32, 100, 101, 116, 97, 105, 108, 115, 41>>
S_dash == <<45, 32>>
S_indent == <<32, 32>>
S_colon == <<58, 32>>

(***************************************************************************)
(* TOML values.  Every value is a record of the same shape: k is the kind  *)
(* ("str", "int", "list", "dict", "none"), s the text of a str, n the      *)
(* number of an int, items the elements of a list or the <<key, value>>    *)
(* pairs of a dict.  A raw entry (a TOML table) is a sequence of           *)
(* <<key, value>> pairs in file order with distinct keys.                  *)
(***************************************************************************)
VStr(s) == [k |-> "str", s |-> s, n |-> 0, items |-> <<>>]
VInt(n) == [k |-> "int", s |-> <<>>, n |-> n, items |-> <<>>]
VList(xs) == [k |-> "list", s |-> <<>>, n |-> 0, items |-> xs]
VDict(kvs) == [k |-> "dict", s |-> <<>>, n |-> 0, items |-> kvs]
VNone == [k |-> "none", s |-> <<>>, n |-> 0, items |-> <<>>]

\* str(value) for the scalars; lists and dicts of the modelled inputs hold scalars only.
Str(v) ==
    CASE v.k = "str" -> v.s
      [] v.k = "int" -> StrOfInt(v.n)
      [] v.k = "none" -> <<78, 111, 110, 101>>
      [] OTHER -> <<>>

\* bool(value): the truth value Python's `or` tests.
Truthy(v) ==
    CASE v.k = "str" -> v.s # <<>>
      [] v.k = "int" -> v.n # 0
      [] v.k = "none" -> FALSE
      [] OTHER -> v.items # <<>>

HasKey(item, key) == \E i \in 1..Len(item) : item[i][1] = key

\* dict.get(key, default)
Get(item, key, default) ==
    IF HasKey(item, key)
    THEN item[CHOOSE i \in 1..Len(item) : item[i][1] = key][2]
    ELSE default

(***************************************************************************)
(* The TOML tables of the modelled files.  An Event holds a reference to   *)
(* its table (raw=item); the model names the table, Table gives its pairs. *)
(***************************************************************************)
\* {ts = "2", type = "x", task = "ab c"}
EntryA == << <<S_ts, VStr(<<50>>)>>, <<S_type, VStr(<<120>>)>>,
             <<S_task, VStr(<<97, 98, 32, 99>>)>> >>
\* {summary = "s", ts = 10, files = ["f g", 0]}: str(10) = "10" sorts below "2"
EntryB == << <<S_summary, VStr(<<115>>)>>, <<S_ts, VInt(10)>>,
             <<S_files, VList(<<VStr(<<102, 32, 103>>), VInt(0)>>)>> >>
\* {type = "y"}: no ts, no task, nothing to show in the detail view
EntryC == << <<S_type, VStr(<<121>>)>> >>

Table(ref) ==
    CASE ref = "A" -> EntryA
      [] ref = "B" -> EntryB
      [] OTHER -> EntryC

(***************************************************************************)
(* The environment: the TOML entries a file may hold, what the two reads   *)
(* of a reload tick (os.path.getmtime, then load_events) may return, and   *)
(* the sizes of the terminal.                                              *)
(***************************************************************************)
Entries == {"A", "B", "C"}

\* The sequences of at most n elements of S.
RECURSIVE SeqsUpTo(_, _)
SeqsUpTo(S, n) ==
    IF n = 0 THEN {<<>>}
    ELSE LET shorter == SeqsUpTo(S, n - 1)
         IN shorter \cup
            {Append(q, x) : q \in {r \in shorter : Len(r) = n - 1}, x \in S}

\* data.get("events", []) of the documents a file may hold: up to MaxEvents
\* of the tables, each at most once, in any order.
Documents ==
    {d \in SeqsUpTo(Entries, MaxEvents) :
        \A i, j \in 1..Len(d) : i # j => d[i] # d[j]}

\* os.path.getmtime: a time, FileNotFoundError, or another OSError
\* (PermissionError on the directory, a symlink loop, ...)
MtimeReads ==
    {[r |-> "ok", m |-> m] : m \in 1..MaxMtime}
    \cup {[r |-> "FileNotFoundError", m |-> 0], [r |-> "OSError", m |-> 0]}

\* load_events: the events, FileNotFoundError from open, or any other
\* Exception (PermissionError from open, TOMLDecodeError, AttributeError, ...)
LoadReads ==
    {[r |-> "ok", entries |-> d] : d \in Documents}
    \cup {[r |-> "FileNotFoundError", entries |-> <<>>],
          [r |-> "Exception", entries |-> <<>>]}

\* At 4 columns the wrap width of the detail view, width - 4, is not positive.
Heights == 2..MaxRows
Widths == 4..MaxCols

(***************************************************************************)
(* load_events: parse the entries, sort by ts descending.                  *)
(***************************************************************************)
\* a or b
Or(a, b) == IF Truthy(a) THEN a ELSE b

\* The fallback chain with summary before task.
TaskOf_SummaryFirst(item) ==
    Or(Or(Get(item, S_summary, VNone), Get(item, S_task, VNone)), VStr(S_no_task))

\* item.get("task") or item.get("summary") or "(no task)"
TaskOf(item) ==
    Or(Or(Get(item, S_task, VNone), Get(item, S_summary, VNone)), VStr(S_no_task))

\* Lines 31-34: Event(ts=..., type=..., task=str(task), raw=item), with `ref`
\* standing for the table
EventOf(item, ref) ==
    [ts |-> Str(Get(item, S_ts, VStr(<<>>))),
     type |-> Str(Get(item, S_type, VStr(<<>>))),
     task |-> Str(TaskOf(item)),
     raw |-> ref]

\* The Event of the table `ref` names
Event(ref) == EventOf(Table(ref), ref)

\* The sort without reverse=True.
SortsBefore_Ascending(a, b) == StrLess(a.ts, b.ts)

\* The key order of events.sort(key=lambda ev: ev.ts, reverse=True): a goes
\* before b when a.ts > b.ts.
SortsBefore(a, b) == StrLess(b.ts, a.ts)

\* One step of the stable sort: e goes before the first element it sorts
\* before, after every element it ties with.
InsertSorted(sorted, e) ==
    LET before == {i \in 1..Len(sorted) : SortsBefore(e, sorted[i])}
        pos == IF before = {} THEN Len(sorted) + 1
               ELSE CHOOSE i \in before : \A j \in before : i <= j
    IN SubSeq(sorted, 1, pos - 1) \o <<e>> \o SubSeq(sorted, pos, Len(sorted))

RECURSIVE SortEvents(_)
SortEvents(evs) ==
    IF evs = <<>> THEN <<>>
    ELSE InsertSorted(SortEvents(SubSeq(evs, 1, Len(evs) - 1)), evs[Len(evs)])

\* load_events on the parsed document: data.get("events", []) is `entries`.
load_events(entries) ==
    SortEvents([i \in 1..Len(entries) |-> Event(entries[i])])

\* load_events of every document, computed once.
Loaded == [d \in Documents |-> load_events(d)]

(***************************************************************************)
(* clamp, clip.                                                            *)
(***************************************************************************)
clamp(value, low, high) == Max(low, Min(high, value))

\* clip(text, width): 8230 is the ellipsis character.
clip(text, width) ==
    IF width <= 0 THEN <<>>
    ELSE IF Len(text) <= width THEN text
    ELSE IF width <= 1 THEN SubSeq(text, 1, width)
    ELSE SubSeq(text, 1, width - 1) \o <<8230>>

(***************************************************************************)
(* textwrap.wrap(text, width) with the default options, on text without    *)
(* tabs and hyphens: chunks are the maximal runs of spaces and of          *)
(* non-spaces.  wrap raises ValueError when width <= 0 (WrapRaises); the   *)
(* lines below are its result otherwise.                                   *)
(***************************************************************************)
IsSpace(c) == c = 32

\* chunk.strip() == ''
IsBlank(chunk) == \A i \in 1..Len(chunk) : IsSpace(chunk[i])

RECURSIVE SplitChunks(_, _)
SplitChunks(text, acc) ==
    IF text = <<>> THEN acc
    ELSE IF acc # <<>> /\ IsSpace(acc[Len(acc)][1]) = IsSpace(Head(text))
    THEN SplitChunks(Tail(text), [acc EXCEPT ![Len(acc)] = @ \o <<Head(text)>>])
    ELSE SplitChunks(Tail(text), Append(acc, <<Head(text)>>))

\* The inner loop of _wrap_chunks: how many leading chunks fit on the line.
RECURSIVE FitCount(_, _, _)
FitCount(chunks, width, cur_len) ==
    IF chunks # <<>> /\ cur_len + Len(Head(chunks)) <= width
    THEN 1 + FitCount(Tail(chunks), width, cur_len + Len(Head(chunks)))
    ELSE 0

\* The outer loop of _wrap_chunks, one line per iteration.
RECURSIVE WrapChunks(_, _, _)

\* cur_line is complete: drop_whitespace at its end, append it if not empty.
EndLine(cur_line, chunks, width, lines) ==
    WrapChunks(chunks, width,
        IF cur_line # <<>> /\ IsBlank(cur_line[Len(cur_line)])
        THEN (IF Len(cur_line) > 1
              THEN Append(lines, Concat(SubSeq(cur_line, 1, Len(cur_line) - 1)))
              ELSE lines)
        ELSE (IF cur_line # <<>> THEN Append(lines, Concat(cur_line)) ELSE lines))

\* _handle_long_word with break_long_words: the next chunk is cut at space_left.
BreakLongWord(cur_line, chunks, space_left, width, lines) ==
    EndLine(Append(cur_line, SubSeq(chunks[1], 1, space_left)),
            <<SubSeq(chunks[1], space_left + 1, Len(chunks[1]))>> \o Tail(chunks),
            width, lines)

\* After the inner loop: a chunk longer than the width is broken.
AfterFill(cur_line, chunks, width, lines) ==
    IF chunks # <<>> /\ Len(chunks[1]) > width
    THEN BreakLongWord(cur_line, chunks,
                       IF width < 1 THEN 1 ELSE width - Len(Concat(cur_line)),
                       width, lines)
    ELSE EndLine(cur_line, chunks, width, lines)

\* The inner loop took the first k chunks.
Fill(chunks, k, width, lines) ==
    AfterFill(SubSeq(chunks, 1, k), SubSeq(chunks, k + 1, Len(chunks)), width, lines)

\* drop_whitespace at the start of a line that is not the first.
StartLine(chunks, width, lines) ==
    Fill(chunks, FitCount(chunks, width, 0), width, lines)

WrapChunks(chunks, width, lines) ==
    IF chunks = <<>> THEN lines
    ELSE StartLine(IF IsBlank(chunks[1]) /\ lines # <<>> THEN Tail(chunks) ELSE chunks,
                   width, lines)

WrapRaises(width) == width <= 0

wrap(text, width) == WrapChunks(SplitChunks(text, <<>>), width, <<>>)

(***************************************************************************)
(* format_field_value                                                      *)
(***************************************************************************)
StartsWith(s, prefix) ==
    Len(s) >= Len(prefix) /\ SubSeq(s, 1, Len(prefix)) = prefix

\* The prefix of the next line of a list value, given the lines so far.
ListPrefix(lines) ==
    IF lines = <<>> \/ StartsWith(lines[Len(lines)], S_dash) THEN S_dash ELSE S_indent

RECURSIVE AppendPrefixed(_, _)
AppendPrefixed(lines, wrapped) ==
    IF wrapped = <<>> THEN lines
    ELSE AppendPrefixed(Append(lines, ListPrefix(lines) \o Head(wrapped)), Tail(wrapped))

RECURSIVE FormatList(_, _)
FormatList(items, lines) ==
    IF items = <<>> THEN lines
    ELSE FormatList(Tail(items), AppendPrefixed(lines, wrap(Str(Head(items)), WrapWidth)))

format_field_value(value) ==
    CASE value.k = "list" ->
           LET lines == FormatList(value.items, <<>>)
           IN IF lines # <<>> THEN lines ELSE <<S_dash \o S_empty>>
      [] value.k = "dict" ->
           LET lines == [i \in 1..Len(value.items) |->
                           value.items[i][1] \o S_colon \o Str(value.items[i][2])]
           IN IF lines # <<>> THEN lines ELSE <<S_empty>>
      [] value.k = "none" -> <<S_none>>
      [] OTHER ->
           LET wrapped == wrap(Str(value), WrapWidth)
           IN IF wrapped # <<>> THEN wrapped ELSE << <<>> >>

(***************************************************************************)
(* adjust_scroll                                                           *)
(***************************************************************************)
\* adjust_scroll without its early return (lines 170-171).
adjust_scroll_NoEarlyReturn(selected, scroll_top, visible_rows, total) ==
    LET middle == visible_rows \div 2
        max_scroll == Max(0, total - visible_rows)
        s1 == IF selected >= scroll_top + middle /\ scroll_top < max_scroll
              THEN clamp(selected - middle, 0, max_scroll) ELSE scroll_top
        s2 == IF selected < s1 + middle /\ s1 > 0
              THEN clamp(selected - middle, 0, max_scroll) ELSE s1
    IN IF selected >= total - 1 THEN max_scroll ELSE s2

\* adjust_scroll without its last `if` (lines 178-179).
adjust_scroll_NoSnap(selected, scroll_top, visible_rows, total) ==
    IF total <= visible_rows THEN 0
    ELSE
      LET middle == visible_rows \div 2
          max_scroll == Max(0, total - visible_rows)
          s1 == IF selected >= scroll_top + middle /\ scroll_top < max_scroll
                THEN clamp(selected - middle, 0, max_scroll) ELSE scroll_top
      IN IF selected < s1 + middle /\ s1 > 0
         THEN clamp(selected - middle, 0, max_scroll) ELSE s1

\* adjust_scroll advancing one row at a time on line 175.
adjust_scroll_OneStep(selected, scroll_top, visible_rows, total) ==
    IF total <= visible_rows THEN 0
    ELSE
      LET middle == visible_rows \div 2
          max_scroll == Max(0, total - visible_rows)
          s1 == IF selected >= scroll_top + middle /\ scroll_top < max_scroll
                THEN scroll_top + 1 ELSE scroll_top
          s2 == IF selected < s1 + middle /\ s1 > 0
                THEN clamp(selected - middle, 0, max_scroll) ELSE s1
      IN IF selected >= total - 1 THEN max_scroll ELSE s2

\* adjust_scroll without its second `if` (lines 176-177): it never scrolls back.
adjust_scroll_NoRetreat(selected, scroll_top, visible_rows, total) ==
    IF total <= visible_rows THEN 0
    ELSE
      LET middle == visible_rows \div 2
          max_scroll == Max(0, total - visible_rows)
          s1 == IF selected >= scroll_top + middle /\ scroll_top < max_scroll
                THEN clamp(selected - middle, 0, max_scroll) ELSE scroll_top
      IN IF selected >= total - 1 THEN max_scroll ELSE s1

adjust_scroll(selected, scroll_top, visible_rows, total) ==
    IF total <= visible_rows THEN 0
    ELSE
      LET middle == visible_rows \div 2
          max_scroll == Max(0, total - visible_rows)
          s1 == IF selected >= scroll_top + middle /\ scroll_top < max_scroll
                THEN clamp(selected - middle, 0, max_scroll) ELSE scroll_top
          s2 == IF selected < s1 + middle /\ s1 > 0
                THEN clamp(selected - middle, 0, max_scroll) ELSE s1
      IN IF selected >= total - 1 THEN max_scroll ELSE s2

(***************************************************************************)
(* Rendering.  A render is the sequence of writes it issues to the window: *)
(* addnstr(row, 0, text, n) and hline(row, 0, "-", n).  curses moves the   *)
(* cursor to (row, 0) first and raises curses.error when the row is not a  *)
(* row of the window; the writes after the failing one are not issued.     *)
(***************************************************************************)
AddNStr(row, n) == [op |-> "addnstr", row |-> row, n |-> n]
HLine(row, n) == [op |-> "hline", row |-> row, n |-> n]

\* wmove(row, 0) fails
CursesError(w, height) == w.row < 0 \/ w.row >= height

\* The writes issued up to and including the first one that raises.
Issued(ws, height) ==
    LET bad == {i \in 1..Len(ws) : CursesError(ws[i], height)}
    IN IF bad = {} THEN ws
       ELSE SubSeq(ws, 1, CHOOSE i \in bad : \A j \in bad : i <= j)

ListVisibleRows(height) == Max(1, height - 4)

\* render_list: header, status line, divider, the visible rows, footer.
ListWrites(evs, scroll_top, height, width) ==
    LET visible_rows == ListVisibleRows(height)
        start == scroll_top
        end == Min(Len(evs), scroll_top + visible_rows)
        rows == IF end > start
                THEN [i \in 1..(end - start) |-> AddNStr(3 + (i - 1), width - 1)]
                ELSE <<>>
    IN <<AddNStr(0, width - 1), AddNStr(1, width - 1), HLine(2, width)>>
       \o rows
       \o <<HLine(height - 1, width), AddNStr(height - 1, width - 1)>>

\* The widths render_list clips the three columns of a row to.
task_width(width) == Max(1, width - ts_width - type_width - 4)

RowText(event, width) ==
    [ts |-> clip(event.ts, ts_width),
     type |-> clip(event.type, type_width),
     task |-> clip(event.task, task_width(width))]

fields_order ==
    <<S_task, S_summary, S_details, S_challenges, S_solutions, S_decisions, S_tests, S_files>>

InOrder(key) == \E i \in 1..Len(fields_order) : fields_order[i] = key

\* The fields render_detail shows, in the order it shows them.
RECURSIVE Select(_, _)
Select(pairs, keep) ==
    IF pairs = <<>> THEN <<>>
    ELSE (IF Head(pairs)[1] \in keep THEN <<Head(pairs)>> ELSE <<>>)
         \o Select(Tail(pairs), keep)

ShownFields(raw) ==
    LET keys == {raw[i][1] : i \in 1..Len(raw)}
        first == [i \in 1..Len(fields_order) |->
                    <<fields_order[i], Get(raw, fields_order[i], VNone)>>]
    IN Select(first, keys)
       \o Select(raw, {k \in keys : ~InOrder(k) /\ k # S_ts /\ k # S_type})

RECURSIVE Segments(_, _)
Segments(wrapped, width) ==
    IF wrapped = <<>> THEN <<>>
    ELSE LET segs == wrap(Head(wrapped), width - 4)
         IN [i \in 1..Len(segs) |-> S_indent \o segs[i]] \o Segments(Tail(wrapped), width)

RECURSIVE FieldLines(_, _)
FieldLines(fields, width) ==
    IF fields = <<>> THEN <<>>
    ELSE <<Upper(Head(fields)[1])>>
         \o Segments(format_field_value(Head(fields)[2]), width)
         \o << <<>> >>
         \o FieldLines(Tail(fields), width)

\* Lines 132-153: the lines of the detail view of the event whose raw is `ref`
LinesOf(ref, width) ==
    LET lines == FieldLines(ShownFields(Table(ref)), width)
    IN IF lines # <<>> THEN lines ELSE <<S_no_details>>

\* LinesOf for every table and width, computed once.
Lines == [ref \in Entries, w \in Widths |-> LinesOf(ref, w)]

DetailLines(event, width) == Lines[event.raw, width]

\* textwrap.wrap(wrapped, width=width - 4) raises ValueError
DetailRaises(event, width) ==
    ShownFields(Table(event.raw)) # <<>> /\ WrapRaises(width - 4)

DetailVisibleRows(height) == Max(1, height - 3)

\* Line 156 missing: the scroll is used and returned as it came.
DetailScroll_Unclamped(event, scroll, height, width) == scroll

\* The scroll render_detail clamps to and returns.
DetailScroll(event, scroll, height, width) ==
    clamp(scroll, 0, Max(0, Len(DetailLines(event, width)) - DetailVisibleRows(height)))

DetailHead(width) == <<AddNStr(0, width - 1), HLine(1, width)>>

\* Lines 157-161: the lines drawn, from `scroll` on
ShownLines(nlines, scroll, height) == Min(DetailVisibleRows(height), nlines - scroll)

DetailBody(event, scroll, height, width) ==
    [i \in 1..ShownLines(Len(DetailLines(event, width)),
                         DetailScroll(event, scroll, height, width), height) |->
        AddNStr(2 + (i - 1), width - 1)]
    \o <<HLine(height - 1, width), AddNStr(height - 1, width - 1)>>

(***************************************************************************)
(* main: the state of the loop.                                            *)
(***************************************************************************)
VARIABLES
    selected, scroll_top, detail_mode, detail_scroll,
    last_load, last_loaded_at, last_changed_at, last_status, events, last_mtime,
    pc,        \* "tick" (line 198), "render" (223), "getch" (242), "exit", "raised"
    raised,    \* the exception that left main, "" while none did
    clock,     \* time.monotonic() and time.time(), in seconds
    height, width,   \* stdscr.getmaxyx()
    tick,      \* while pc = "render": what the reload step of this iteration did
    ok_mtime,  \* <<m>>: getmtime's result at the last successful load; <<>>: none yet
    call,      \* the last call recorded: the function, its arguments, its results
    downs      \* the Down presses recorded so far

vars == <<selected, scroll_top, detail_mode, detail_scroll, last_load, last_loaded_at,
          last_changed_at, last_status, events, last_mtime, pc, raised, clock,
          height, width, tick, ok_mtime, call, downs>>

\* What main's loop does not record unless a specification below says so.
record == <<call, downs>>

prog == <<selected, scroll_top, detail_mode, detail_scroll, last_load, last_loaded_at,
          last_changed_at, last_status, events, last_mtime>>

\* res: "skipped", or how load_events ended ("loaded", "FileNotFoundError",
\* "Exception"), or "OSError" when getmtime raised; mtime: what getmtime gave;
\* sorted: the entries read were in display order already; clamped: line 219
\* changed selected.
NoTick == [res |-> "skipped", mtime |-> None, sorted |-> TRUE, clamped |-> FALSE]

NoCall == [fn |-> "none", args |-> <<>>, result |-> <<>>]

Init ==
    /\ selected = 0
    /\ scroll_top = 0
    /\ detail_mode = FALSE
    /\ detail_scroll = 0
    /\ last_load = 0
    /\ last_loaded_at = None
    /\ last_changed_at = None
    /\ last_status = "waiting"
    /\ events = <<>>
    /\ last_mtime = None
    /\ pc = "tick"
    /\ raised = ""
    /\ clock = 0
    /\ height \in Heights
    /\ width \in Widths
    /\ tick = NoTick
    /\ ok_mtime = <<>>
    /\ call = NoCall
    /\ downs = 0

(***************************************************************************)
(* The reload step, lines 198-221.                                         *)
(***************************************************************************)
\* mtime after lines 200-203 (getmtime did not raise OSError)
MtimeOf(mt) == IF mt.r = "ok" THEN Some(mt.m) ELSE None

\* The try statement with `events = []` missing from `except Exception`.
TryLoad_KeepOnError(ld, mtime, now, old_events, old_loaded, old_changed, old_mtime) ==
    CASE ld.r = "ok" ->
           [events |-> Loaded[ld.entries],
            last_loaded_at |-> Some(now),
            last_status |-> IF mtime # old_mtime THEN "loaded" ELSE "loaded (unchanged)",
            last_changed_at |-> IF mtime # old_mtime THEN Some(now) ELSE old_changed]
      [] ld.r = "FileNotFoundError" ->
           [events |-> <<>>, last_loaded_at |-> old_loaded,
            last_status |-> "not found", last_changed_at |-> old_changed]
      [] OTHER ->
           [events |-> old_events, last_loaded_at |-> old_loaded,
            last_status |-> "load error", last_changed_at |-> old_changed]

\* The try statement with last_loaded_at set before load_events is called.
TryLoad_StampFirst(ld, mtime, now, old_events, old_loaded, old_changed, old_mtime) ==
    CASE ld.r = "ok" ->
           [events |-> Loaded[ld.entries],
            last_loaded_at |-> Some(now),
            last_status |-> IF mtime # old_mtime THEN "loaded" ELSE "loaded (unchanged)",
            last_changed_at |-> IF mtime # old_mtime THEN Some(now) ELSE old_changed]
      [] ld.r = "FileNotFoundError" ->
           [events |-> <<>>, last_loaded_at |-> Some(now),
            last_status |-> "not found", last_changed_at |-> old_changed]
      [] OTHER ->
           [events |-> <<>>, last_loaded_at |-> Some(now),
            last_status |-> "load error", last_changed_at |-> old_changed]

\* Lines 204-217: what the try statement leaves in events, last_loaded_at,
\* last_status and last_changed_at.
TryLoad(ld, mtime, now, old_events, old_loaded, old_changed, old_mtime) ==
    CASE ld.r = "ok" ->
           [events |-> Loaded[ld.entries],
            last_loaded_at |-> Some(now),
            last_status |-> IF mtime # old_mtime THEN "loaded" ELSE "loaded (unchanged)",
            last_changed_at |-> IF mtime # old_mtime THEN Some(now) ELSE old_changed]
      [] ld.r = "FileNotFoundError" ->
           [events |-> <<>>, last_loaded_at |-> old_loaded,
            last_status |-> "not found", last_changed_at |-> old_changed]
      [] OTHER ->
           [events |-> <<>>, last_loaded_at |-> old_loaded,
            last_status |-> "load error", last_changed_at |-> old_changed]

\* Line 218
RecordMtime(mtime, old_mtime, ld) == mtime

\* Line 219 missing.
ClampSelected_Missing(sel, evs) == sel

\* Line 219
ClampSelected(sel, evs) == clamp(sel, 0, Max(0, Len(evs) - 1))

\* The entries of the document are in display order already.
IsSorted(entries) ==
    \A i \in 1..(Len(entries) - 1) : StrGeq(Event(entries[i]).ts, Event(entries[i + 1]).ts)

\* IsSorted of every document, computed once.
InOrderDocs == {d \in Documents : IsSorted(d)}

\* now = time.monotonic(): d seconds after the previous reading.
Elapse(d) ==
    /\ d \in {0, REFRESH_SECONDS}
    /\ clock + d <= MaxTicks * REFRESH_SECONDS
    /\ clock' = clock + d

Snapshot(res, mtime, ld) ==
    [res |-> res, mtime |-> mtime, sorted |-> ld.entries \in InOrderDocs,
     clamped |-> selected' # selected]

\* The interval has not elapsed: line 199 is false.
NoReloadStep(d) ==
    /\ pc = "tick"
    /\ Elapse(d)
    /\ ~(clock' - last_load >= REFRESH_SECONDS)
    /\ pc' = "render"
    /\ tick' = NoTick
    /\ UNCHANGED <<prog, raised, height, width, ok_mtime>>

\* getmtime raises an OSError that is not FileNotFoundError: nothing catches it.
ReloadRaises(d, mt) ==
    /\ pc = "tick"
    /\ UNCHANGED record
    /\ Elapse(d)
    /\ clock' - last_load >= REFRESH_SECONDS
    /\ mt.r = "OSError"
    /\ pc' = "raised"
    /\ raised' = "OSError"
    /\ UNCHANGED prog
    /\ tick' = Snapshot("OSError", None, [r |-> "none", entries |-> <<>>])
    /\ UNCHANGED <<height, width, ok_mtime>>

\* Lines 200-221 with getmtime returning or raising FileNotFoundError.
Reload(d, mt, ld) ==
    /\ pc = "tick"
    /\ UNCHANGED record
    /\ Elapse(d)
    /\ clock' - last_load >= REFRESH_SECONDS
    /\ mt.r # "OSError"
    /\ LET mtime == MtimeOf(mt)
           got == TryLoad(ld, mtime, clock', events, last_loaded_at, last_changed_at,
                          last_mtime)
       IN /\ events' = got.events
          /\ last_loaded_at' = got.last_loaded_at
          /\ last_status' = got.last_status
          /\ last_changed_at' = got.last_changed_at
          /\ last_mtime' = RecordMtime(mtime, last_mtime, ld)
          /\ selected' = ClampSelected(selected, got.events)
          /\ detail_scroll' = 0
          /\ last_load' = clock'
          /\ tick' = Snapshot(IF ld.r = "ok" THEN "loaded" ELSE ld.r, mtime, ld)
          /\ ok_mtime' = IF ld.r = "ok" THEN <<mtime>> ELSE ok_mtime
    /\ pc' = "render"
    /\ UNCHANGED <<scroll_top, detail_mode, raised, height, width>>

(***************************************************************************)
(* The render step, lines 223-240.                                         *)
(***************************************************************************)
AnyCursesError(ws, h) == \E i \in 1..Len(ws) : CursesError(ws[i], h)

\* Line 229
ScrollForList(sel, top, h, total) == adjust_scroll(sel, top, ListVisibleRows(h), total)

\* What render_detail raises: curses.error from a write, ValueError from
\* textwrap.wrap, "" when it returns.
DetailException(event, scroll, h, w) ==
    IF AnyCursesError(DetailHead(w), h) THEN "curses.error"
    ELSE IF DetailRaises(event, w) THEN "ValueError"
    ELSE IF AnyCursesError(DetailBody(event, scroll, h, w), h) THEN "curses.error"
    ELSE ""

\* What render_list raises.
ListException(evs, top, h, w) ==
    IF AnyCursesError(ListWrites(evs, top, h, w), h) THEN "curses.error" ELSE ""

\* Lines 224-225: render_detail(stdscr, events[selected], detail_scroll)
RenderDetailStep ==
    /\ pc = "render"
    /\ detail_mode /\ events # <<>>
    /\ \E exc \in {DetailException(events[selected + 1], detail_scroll, height, width)} :
          /\ raised' = exc
          /\ pc' = IF exc = "" THEN "getch" ELSE "raised"
          /\ detail_scroll' =
                IF exc = ""
                THEN DetailScroll(events[selected + 1], detail_scroll, height, width)
                ELSE detail_scroll
    /\ tick' = NoTick
    /\ UNCHANGED <<selected, scroll_top, detail_mode, last_load, last_loaded_at,
                   last_changed_at, last_status, events, last_mtime, clock, height,
                   width, ok_mtime>>

\* Lines 226-239: adjust_scroll, then render_list
RenderListStep ==
    /\ pc = "render"
    /\ ~(detail_mode /\ events # <<>>)
    /\ scroll_top' = ScrollForList(selected, scroll_top, height, Len(events))
    /\ \E exc \in {ListException(events, scroll_top', height, width)} :
          /\ raised' = exc
          /\ pc' = IF exc = "" THEN "getch" ELSE "raised"
    /\ tick' = NoTick
    /\ UNCHANGED <<selected, detail_mode, detail_scroll, last_load, last_loaded_at,
                   last_changed_at, last_status, events, last_mtime, clock, height,
                   width, ok_mtime>>

(***************************************************************************)
(* The key step, lines 242-264.                                            *)
(***************************************************************************)
loader == <<last_load, last_loaded_at, last_changed_at, last_status, events, last_mtime,
            clock, tick, ok_mtime>>

\* Line 258
SelectUp(sel) == Max(0, sel - 1)
\* Line 260 wrapping to the first row after the last.
SelectDown_Wrap(sel, total) == (sel + 1) % Max(1, total)

\* Line 260
SelectDown(sel, total) == Min(Max(0, total - 1), sel + 1)
\* Line 262 missing: Enter opens the detail view of an empty list too.
EnterOpens_Always(evs) == TRUE

\* Line 262: Enter opens the detail view
EnterOpens(evs) == evs # <<>>
\* Line 250
ScrollUp(sc) == Max(0, sc - 1)

\* getch returns -1: no key within the timeout (lines 243-244)
KeyTimeout ==
    /\ pc = "getch"
    /\ UNCHANGED record
    /\ pc' = "tick"
    /\ UNCHANGED <<selected, scroll_top, detail_mode, detail_scroll, loader, raised,
                   height, width>>

\* 27 or "q": back to the list (lines 246-248), or out of the loop (255-256)
KeyEsc ==
    /\ pc = "getch"
    /\ UNCHANGED record
    /\ IF detail_mode
       THEN /\ detail_mode' = FALSE
            /\ detail_scroll' = 0
            /\ pc' = "tick"
       ELSE /\ pc' = "exit"
            /\ UNCHANGED <<detail_mode, detail_scroll>>
    /\ UNCHANGED <<selected, scroll_top, loader, raised, height, width>>

\* KEY_UP or "k" (lines 249-250, 257-258)
KeyUp ==
    /\ pc = "getch"
    /\ UNCHANGED record
    /\ IF detail_mode
       THEN /\ detail_scroll' = ScrollUp(detail_scroll)
            /\ UNCHANGED selected
       ELSE /\ selected' = SelectUp(selected)
            /\ UNCHANGED detail_scroll
    /\ pc' = "tick"
    /\ UNCHANGED <<scroll_top, detail_mode, loader, raised, height, width>>

\* KEY_DOWN or "j" (lines 251-252, 259-260)
KeyDownStep ==
    /\ pc = "getch"
    /\ IF detail_mode
       THEN /\ detail_scroll < MaxDetailScroll
            /\ detail_scroll' = detail_scroll + 1
            /\ UNCHANGED selected
       ELSE /\ selected' = SelectDown(selected, Len(events))
            /\ UNCHANGED detail_scroll
    /\ pc' = "tick"
    /\ UNCHANGED <<scroll_top, detail_mode, loader, raised, height, width>>

\* KEY_ENTER, 10 or 13 (lines 261-264; no branch of detail mode takes it)
KeyEnterStep ==
    /\ pc = "getch"
    /\ IF ~detail_mode /\ EnterOpens(events)
       THEN /\ detail_mode' = TRUE
            /\ detail_scroll' = 0
       ELSE UNCHANGED <<detail_mode, detail_scroll>>
    /\ pc' = "tick"
    /\ UNCHANGED <<selected, scroll_top, loader, raised, height, width>>

\* KEY_RESIZE: the terminal was resized to h x w; no branch takes the key
KeyResize(h, w) ==
    /\ pc = "getch"
    /\ UNCHANGED record
    /\ <<h, w>> # <<height, width>>
    /\ height' = h
    /\ width' = w
    /\ pc' = "tick"
    /\ UNCHANGED <<selected, scroll_top, detail_mode, detail_scroll, loader, raised,
                   tick>>

\* The steps of main's loop that record nothing.
NoReload(d) == NoReloadStep(d) /\ UNCHANGED record
RenderDetail == RenderDetailStep /\ UNCHANGED record
RenderList == RenderListStep /\ UNCHANGED record
KeyDown == KeyDownStep /\ UNCHANGED record
KeyEnter == KeyEnterStep /\ UNCHANGED record

Next ==
    \/ \E d \in {0, REFRESH_SECONDS} : NoReload(d)
    \/ \E d \in {0, REFRESH_SECONDS}, mt \in MtimeReads : ReloadRaises(d, mt)
    \/ \E d \in {0, REFRESH_SECONDS}, mt \in MtimeReads, ld \in LoadReads : Reload(d, mt, ld)
    \/ RenderDetail
    \/ RenderList
    \/ KeyTimeout
    \/ KeyEsc
    \/ KeyUp
    \/ KeyDown
    \/ KeyEnter
    \/ \E h \in Heights, w \in Widths : KeyResize(h, w)

Spec == Init /\ [][Next]_vars

(***************************************************************************)
(* The functions of the module called on their own.  The loop is parked    *)
(* (main has returned); the initial state holds a call with its arguments  *)
(* and no result, and a step makes the call and records what it returns.   *)
(***************************************************************************)
loop == <<selected, scroll_top, detail_mode, detail_scroll, last_load, last_loaded_at,
          last_changed_at, last_status, events, last_mtime, pc, raised, clock,
          height, width, tick, ok_mtime>>

Parked ==
    /\ selected = 0 /\ scroll_top = 0 /\ detail_mode = FALSE /\ detail_scroll = 0
    /\ last_load = 0 /\ last_loaded_at = None /\ last_changed_at = None
    /\ last_status = "waiting" /\ events = <<>> /\ last_mtime = None
    /\ pc = "exit" /\ raised = "" /\ clock = 0
    /\ height = MaxRows /\ width = MaxCols
    /\ tick = NoTick /\ ok_mtime = <<>>

Pending(fn, args) == [fn |-> fn, args |-> args, result |-> <<>>]

\* <<selected, scroll_top, visible_rows, total>>: selected a valid index of a
\* list of `total` events (0 when it is empty), as main keeps it.
AdjustScrollArgs ==
    {<<sel, top, visible_rows, total>> :
        sel \in 0..MaxTotal, top \in 0..MaxTotal,
        visible_rows \in 1..MaxTotal, total \in 0..MaxTotal}

AdjustScrollCalls ==
    {Pending("adjust_scroll", a) : a \in {b \in AdjustScrollArgs : b[1] <= Max(0, b[4] - 1)}}

\* scroll_top = adjust_scroll(selected, scroll_top, visible_rows, total)
CallAdjustScroll ==
    /\ call.fn = "adjust_scroll"
    /\ call.result = <<>>
    /\ call' = [call EXCEPT !.result =
                    <<adjust_scroll(call.args[1], call.args[2], call.args[3], call.args[4])>>]
    /\ UNCHANGED <<loop, downs>>

\* The same call again, on the scroll_top the first one returned.
CallAdjustScrollAgain ==
    /\ call.fn = "adjust_scroll"
    /\ Len(call.result) = 1
    /\ call' = [call EXCEPT !.result =
                    Append(@, adjust_scroll(call.args[1], call.result[1],
                                            call.args[3], call.args[4]))]
    /\ UNCHANGED <<loop, downs>>

AdjustInit == Parked /\ downs = 0 /\ call \in AdjustScrollCalls

AdjustNext == CallAdjustScroll \/ CallAdjustScrollAgain

AdjustSpec == AdjustInit /\ [][AdjustNext]_vars

\* The call recorded is adjust_scroll(sel, top, visible_rows, total) and has returned.
Adjusted == call.fn = "adjust_scroll" /\ call.result # <<>>

(***************************************************************************)
(* format_field_value and the parsing of one entry called on their own.    *)
(***************************************************************************)
\* forty "a", a space, forty "b": wraps to two lines at width 76
LongText == [i \in 1..81 |-> IF i <= 40 THEN 97 ELSE IF i = 41 THEN 32 ELSE 98]

\* eighty "w": one word longer than a line
LongWord == [i \in 1..80 |-> 119]

\* "c", the two long texts, "", "x y", 0, 7
FormatItems ==
    {VStr(<<99>>), VStr(LongText), VStr(LongWord), VStr(<<>>), VStr(<<120, 32, 121>>),
     VInt(0), VInt(7)}

FormatValues ==
    {VList(xs) : xs \in SeqsUpTo(FormatItems, MaxItems)}
    \cup {VNone, VStr(<<>>), VStr(LongText), VInt(7), VDict(<<>>),
          VDict(<< <<S_task, VStr(<<99>>)>>, <<S_tests, VInt(0)>> >>)}

\* What an entry may hold under "task" and under "summary": nothing (no such
\* key), "", one letter, 0, a positive number, [].
TitleValues(letter, number) ==
    {VNone, VStr(<<>>), VStr(<<letter>>), VInt(0), VInt(number), VList(<<>>)}

Field(key, v) == IF v = VNone THEN <<>> ELSE << <<key, v>> >>

\* The entries: {type = "x"} with a task and a summary of those, in either order.
TitleItems ==
    {<< <<S_type, VStr(<<120>>)>> >> \o fs :
        fs \in UNION {{Field(S_task, t) \o Field(S_summary, u),
                       Field(S_summary, u) \o Field(S_task, t)} :
                      t \in TitleValues(116, 7), u \in TitleValues(115, 5)}}

ValueCalls ==
    {Pending("format_field_value", <<v>>) : v \in FormatValues}
    \cup {Pending("load_events", <<item>>) : item \in TitleItems}

\* format_field_value(value)
CallFormatFieldValue ==
    /\ call.fn = "format_field_value"
    /\ call.result = <<>>
    /\ call' = [call EXCEPT !.result = <<format_field_value(call.args[1])>>]
    /\ UNCHANGED <<loop, downs>>

\* One turn of load_events' loop (lines 30-34) on the entry: the Event's task.
CallLoadEvents ==
    /\ call.fn = "load_events"
    /\ call.result = <<>>
    /\ call' = [call EXCEPT !.result = <<EventOf(call.args[1], "").task>>]
    /\ UNCHANGED <<loop, downs>>

ValueInit == Parked /\ downs = 0 /\ call \in ValueCalls

ValueNext == CallFormatFieldValue \/ CallLoadEvents

ValueSpec == ValueInit /\ [][ValueNext]_vars

(***************************************************************************)
(* Down presses, then Enter.  A file of one or more events has just been   *)
(* loaded, the first row is selected and the file is not reloaded; every   *)
(* Down press in the list is counted, and the call of render_detail is     *)
(* recorded with the event passed to it (line 225).                        *)
(***************************************************************************)
SelectInit ==
    /\ \E d \in Documents : d # <<>> /\ events = Loaded[d]
    /\ selected = 0 /\ scroll_top = 0 /\ detail_mode = FALSE /\ detail_scroll = 0
    /\ last_load = 0 /\ last_loaded_at = Some(0) /\ last_changed_at = Some(0)
    /\ last_status = "loaded" /\ last_mtime = Some(1) /\ ok_mtime = <<Some(1)>>
    /\ pc = "tick" /\ raised = "" /\ clock = 0
    /\ height \in Heights /\ width \in Widths
    /\ tick = NoTick
    /\ call = NoCall /\ downs = 0

PressDown ==
    /\ ~detail_mode
    /\ downs < MaxDowns
    /\ KeyDownStep
    /\ downs' = downs + 1
    /\ UNCHANGED call

PressEnter ==
    /\ ~detail_mode
    /\ KeyEnterStep
    /\ UNCHANGED record

ShowDetail ==
    /\ RenderDetailStep
    /\ call' = [fn |-> "render_detail", args |-> <<events[selected + 1]>>,
                result |-> IF raised' = "" THEN <<detail_scroll'>> ELSE <<>>]
    /\ UNCHANGED downs

SelectNext ==
    \/ NoReload(0)
    \/ RenderList
    \/ PressDown
    \/ PressEnter
    \/ ShowDetail

SelectSpec == SelectInit /\ [][SelectNext]_vars

(***************************************************************************)
(* What is on the screen.  Once the render step of an iteration has run    *)
(* (the loop waits in getch, or the render raised), the view drawn and the *)
(* writes issued are functions of the state.                               *)
(***************************************************************************)
Rendered == pc = "getch" \/ (pc = "raised" /\ raised # "OSError")

View == IF detail_mode /\ events # <<>> THEN "detail" ELSE "list"

Writes ==
    IF View = "list"
    THEN Issued(ListWrites(events, scroll_top, height, width), height)
    ELSE IF AnyCursesError(DetailHead(width), height) \/ DetailRaises(events[selected + 1], width)
    THEN Issued(DetailHead(width), height)
    ELSE Issued(DetailHead(width)
                \o DetailBody(events[selected + 1], detail_scroll, height, width), height)

\* The step is a reload tick in which load_events ended as `res`.
TickEnded(res) == pc = "tick" /\ tick'.res = res

C2_StatusFollowsMarker ==
    [][TickEnded("loaded") =>
        /\ (tick'.mtime # last_mtime \/ last_mtime = None)
              => (last_status' = "loaded" /\ last_changed_at' = Some(clock'))
        /\ (tick'.mtime = last_mtime /\ last_mtime # None)
              => (last_status' = "loaded (unchanged)" /\ last_changed_at' = last_changed_at)
      ]_vars

(***************************************************************************)
(* C3.  Staleness is measured against the last successful reload: a        *)
(* successful reload that read a modification time reports "loaded         *)
(* (unchanged)" only if that time equals the one read at the last          *)
(* successful reload; if it differs from that one, the status is "loaded"  *)
(* and last_changed_at is the time of this load.                           *)
(***************************************************************************)
C3_StalenessSinceLastSuccess ==
    [][(TickEnded("loaded") /\ tick'.mtime # None) =>
        /\ last_status' = "loaded (unchanged)" => ok_mtime = <<tick'.mtime>>
        /\ (ok_mtime # <<>> /\ ok_mtime # <<tick'.mtime>>)
              => (last_status' = "loaded" /\ last_changed_at' = Some(clock'))
      ]_vars

(***************************************************************************)
(* C4.  On a reload tick where the source is absent (load_events raises    *)
(* FileNotFoundError), events becomes empty, the status becomes "not       *)
(* found", and last_changed_at and last_loaded_at keep their values.       *)
(***************************************************************************)
C4_NotFound ==
    [][TickEnded("FileNotFoundError") =>
        /\ events' = <<>>
        /\ last_status' = "not found"
        /\ last_changed_at' = last_changed_at
        /\ last_loaded_at' = last_loaded_at
      ]_vars

\* The source was deleted after a load of two or more events.
C4_Witness ==
    /\ pc = "render" /\ tick.res = "FileNotFoundError" /\ tick.clamped
    /\ events = <<>> /\ last_status = "not found"
    /\ last_loaded_at # None /\ last_changed_at # None

(***************************************************************************)
(* C5.  No outcome of a reload tick terminates the loop: whatever getmtime *)
(* and load_events do, the step from line 198 goes on to the render step.  *)
(***************************************************************************)
C5_ReloadNeverTerminates == [][pc = "tick" => pc' = "render"]_vars

(***************************************************************************)
(* C6.  In every reachable state selected is within 0..len(events)-1 when  *)
(* events is not empty and is 0 when it is empty.                          *)
(***************************************************************************)
C6_SelectedInRange ==
    IF events = <<>> THEN selected = 0 ELSE selected \in 0..(Len(events) - 1)

\* A reload that left fewer events than the selected index: line 219 moved it.
C6_Witness ==
    /\ pc = "render" /\ tick.res = "loaded" /\ tick.clamped
    /\ events # <<>> /\ selected = Len(events) - 1

(***************************************************************************)
(* C7.  Rendering never fails: after every render no exception was raised, *)
(* and every write issued targets a row in 0..height-1 with a positive     *)
(* clip width.                                                             *)
(***************************************************************************)
C7_RenderNeverFails ==
    Rendered =>
        /\ raised = ""
        /\ \A i \in 1..Len(Writes) :
              Writes[i].row \in 0..(height - 1) /\ Writes[i].n > 0

(***************************************************************************)
(* C8.  The mode state machine: the initial mode is List; List goes to     *)
(* Detail only on Enter with at least one event, setting detail_scroll to  *)
(* 0; Detail goes to List only on Escape/q, setting detail_scroll to 0;    *)
(* main returns only on Escape/q in List mode; no other step (Up, Down,    *)
(* timeout, resize, reload, render) changes the mode.                      *)
(***************************************************************************)
C8_ModeMachine ==
    /\ ~detail_mode
    /\ [][/\ (~detail_mode /\ detail_mode')
                => (KeyEnter /\ events # <<>> /\ detail_scroll' = 0)
          /\ (detail_mode /\ ~detail_mode') => (KeyEsc /\ detail_scroll' = 0)
          /\ pc' = "exit" => (KeyEsc /\ ~detail_mode)
          /\ (KeyEsc /\ detail_mode) => (pc' = "tick" /\ ~detail_mode')
          /\ (KeyEnter /\ ~detail_mode /\ events # <<>>) => detail_mode'
         ]_vars

\* Detail mode, just entered.
C8_Witness ==
    pc = "tick" /\ detail_mode /\ events # <<>> /\ detail_scroll = 0 /\ selected > 0

(***************************************************************************)
(* C9.  In every reachable state events is sorted by ts descending under   *)
(* string comparison, and an event whose table has no ts has the empty ts  *)
(* and only such events after it.                                          *)
(***************************************************************************)
C9_SortedDescending ==
    /\ \A i \in 1..(Len(events) - 1) : StrGeq(events[i].ts, events[i + 1].ts)
    /\ \A i \in 1..Len(events) :
          ~HasKey(Table(events[i].raw), S_ts)
              => \A j \in i..Len(events) : events[j].ts = <<>>

\* A load of entries that were not in display order, one of them without ts.
C9_Witness ==
    /\ pc = "render" /\ tick.res = "loaded" /\ ~tick.sorted
    /\ Len(events) >= 2
    /\ events[1].ts # <<>>
    /\ ~HasKey(Table(events[Len(events)].raw), S_ts)

\* adjust_scroll on every list of up to MaxTotal events, every window of up to
\* MaxTotal rows, every prior scroll_top and every valid selection.
AdjustKeepsVisible ==
    \A total \in 0..MaxTotal, visible_rows \in 1..MaxTotal, top \in 0..MaxTotal :
        \A sel \in 0..Max(0, total - 1) :
            LET s == adjust_scroll(sel, top, visible_rows, total)
            IN s <= sel /\ sel < s + visible_rows

(***************************************************************************)
(* C10.  At every list render, after adjust_scroll, the selected row is in *)
(* the window: scroll_top <= selected < scroll_top + visible_rows; and     *)
(* adjust_scroll returns such a scroll_top for every valid selection,      *)
(* every window size >= 1 and every prior scroll_top >= 0 (which depends   *)
(* on no variable, and is evaluated before the first reload only).         *)
(***************************************************************************)
C10_SelectedVisible ==
    /\ (Rendered /\ View = "list")
          => (scroll_top <= selected /\ selected < scroll_top + ListVisibleRows(height))
    /\ (pc = "tick" /\ last_status = "waiting") => AdjustKeepsVisible

\* A list longer than the window, scrolled to a selection that is not the first.
C10_Witness ==
    /\ pc = "getch" /\ View = "list"
    /\ Len(events) > ListVisibleRows(height)
    /\ selected > 0 /\ scroll_top > 0
(***************************************************************************)
(* C11.  adjust_scroll is idempotent: called again with the same selected, *)
(* visible_rows and total on the scroll_top it returned, it returns that   *)
(* scroll_top again.                                                       *)
(***************************************************************************)
C11_Idempotent ==
    (call.fn = "adjust_scroll" /\ Len(call.result) = 2)
        => call.result[2] = call.result[1]

\* A second call after a first one that moved scroll_top of a long list.
C11_Witness ==
    /\ call.fn = "adjust_scroll" /\ Len(call.result) = 2
    /\ call.args[4] > call.args[3]
    /\ call.result[1] # call.args[2]
    /\ call.result[1] > 0

(***************************************************************************)
(* C12.  When total > visible_rows, the scroll_top adjust_scroll returns   *)
(* is within 0..total - visible_rows, for every valid selected and every   *)
(* prior scroll_top >= 0.                                                  *)
(***************************************************************************)
C12_WithinMaxScroll ==
    (Adjusted /\ call.args[4] > call.args[3])
        => \A i \in 1..Len(call.result) :
              call.result[i] \in 0..(call.args[4] - call.args[3])

(***************************************************************************)
(* C13.  If total <= visible_rows, adjust_scroll returns 0 for every       *)
(* selected and every prior scroll_top.                                    *)
(***************************************************************************)
C13_ShortListUnscrolled ==
    (Adjusted /\ call.args[4] <= call.args[3])
        => \A i \in 1..Len(call.result) : call.result[i] = 0

\* A list that fits the window, called with a scroll_top left from before.
C13_Witness ==
    /\ Adjusted /\ call.args[4] <= call.args[3]
    /\ call.args[4] >= 2 /\ call.args[2] > 0 /\ call.args[1] > 0
    /\ call.result[1] = 0

(***************************************************************************)
(* C14.  If selected = total - 1 and total > visible_rows, adjust_scroll   *)
(* returns exactly total - visible_rows for every prior scroll_top.        *)
(***************************************************************************)
C14_LastRowSnaps ==
    (Adjusted /\ call.args[1] = call.args[4] - 1 /\ call.args[4] > call.args[3])
        => \A i \in 1..Len(call.result) : call.result[i] = call.args[4] - call.args[3]

\* The last row selected with a prior scroll_top past the last full window.
C14_Witness ==
    /\ Adjusted /\ call.args[1] = call.args[4] - 1 /\ call.args[4] > call.args[3]
    /\ call.args[2] > call.args[4] - call.args[3]
    /\ call.result[1] = call.args[4] - call.args[3]
(***************************************************************************)
(* C15.  From the list with row 0 selected on n >= 1 loaded events, k Down *)
(* presses and then Enter, with no reload in between, show the detail view *)
(* of the event at index min(k, n-1) of the ts-descending sequence, which  *)
(* is the row selected when Enter was pressed.                             *)
(***************************************************************************)
C15_DetailOfSelectedRow ==
    call.fn = "render_detail" =>
        /\ call.args[1] = events[Min(downs, Len(events) - 1) + 1]
        /\ selected = Min(downs, Len(events) - 1)
        /\ \A i \in 1..(Len(events) - 1) : StrGeq(events[i].ts, events[i + 1].ts)

\* More Down presses than rows below the first, then the detail view drawn.
C15_Witness ==
    /\ call.fn = "render_detail" /\ call.result # <<>>
    /\ Len(events) = 2 /\ downs = MaxDowns
    /\ call.args[1] = events[2]
\* The lines of one list element as C16 has them: "- " before the first line
\* of its wrapping, two spaces before each later one.
BulletLines(wrapped) ==
    [i \in 1..Len(wrapped) |-> (IF i = 1 THEN S_dash ELSE S_indent) \o wrapped[i]]

RECURSIVE Bulleted(_)
Bulleted(items) ==
    IF items = <<>> THEN <<>>
    ELSE BulletLines(wrap(Str(Head(items)), WrapWidth)) \o Bulleted(Tail(items))

(***************************************************************************)
(* C16.  For a list value, format_field_value prefixes the first wrapped   *)
(* line of each element with "- " and every later line of the same element *)
(* with two spaces; an empty list yields the single line "- (empty)".      *)
(***************************************************************************)
C16_ListBullets ==
    (call.fn = "format_field_value" /\ call.args[1].k = "list" /\ call.result # <<>>)
        => IF call.args[1].items = <<>>
           THEN call.result[1] = <<S_dash \o S_empty>>
           ELSE Bulleted(call.args[1].items) # <<>>
                   => call.result[1] = Bulleted(call.args[1].items)
\* A value that is there and is not an empty string, list or table.
NonEmptyValue(v) ==
    /\ v.k # "none"
    /\ v.k = "str" => v.s # <<>>
    /\ v.k \in {"list", "dict"} => v.items # <<>>

\* A non-empty value that is not the number zero either.
NonZeroValue(v) == NonEmptyValue(v) /\ (v.k = "int" => v.n # 0)

\* The text of the first of task, summary that Counts, else "(no task)".
FirstOf(item, Counts(_)) ==
    LET task == Get(item, S_task, VNone)
        summary == Get(item, S_summary, VNone)
    IN IF Counts(task) THEN Str(task)
       ELSE IF Counts(summary) THEN Str(summary)
       ELSE S_no_task

\* The call recorded parsed an entry into an Event.
Parsed == call.fn = "load_events" /\ call.result # <<>>

(***************************************************************************)
(* C17.  As claimed: the task of an Event is the text of the first         *)
(* non-empty value among the entry's task and then its summary, "(no       *)
(* task)" when neither is present and non-empty, and is never empty.       *)
(***************************************************************************)
C17_TitleFirstNonEmpty ==
    Parsed => /\ call.result[1] = FirstOf(call.args[1], NonEmptyValue)
              /\ call.result[1] # <<>>

(***************************************************************************)
(* C17, amended.  The task of an Event is the text of the first value      *)
(* among the entry's task and then its summary that is present, non-empty  *)
(* and not the number zero, "(no task)" when there is none, and is never   *)
(* empty.                                                                  *)
(***************************************************************************)
C17_TitleFirstTruthy ==
    Parsed => /\ call.result[1] = FirstOf(call.args[1], NonZeroValue)
              /\ call.result[1] # <<>>

\* An entry with task = 0 and summary = "s": the summary is the title.
C17_Witness ==
    /\ Parsed
    /\ Get(call.args[1], S_task, VNone) = VInt(0)
    /\ Get(call.args[1], S_summary, VNone) = VStr(<<115>>)
    /\ call.result[1] = <<115>>
\* max(0, len(lines) - visible_rows) of the detail view of the selected event
DetailMaxScroll ==
    Max(0, Len(DetailLines(events[selected + 1], width)) - DetailVisibleRows(height))

(***************************************************************************)
(* C18.  After every detail render the stored detail_scroll is within      *)
(* 0..max(0, len(lines) - visible_rows), however many Up and Down presses  *)
(* came before; so an Up press in the detail view lowers it by exactly one *)
(* (to no less than 0), and the next render shows the view from that line, *)
(* leaving it as it is.                                                    *)
(***************************************************************************)
C18_DetailScrollClamped ==
    /\ []((pc = "getch" /\ View = "detail") => detail_scroll \in 0..DetailMaxScroll)
    /\ [][(KeyUp /\ View = "detail") => detail_scroll' = Max(0, detail_scroll - 1)]_vars
    /\ [][(RenderDetail /\ pc' = "getch" /\ detail_scroll <= DetailMaxScroll)
            => detail_scroll' = detail_scroll]_vars

\* A Down press past the end of a body longer than the window, not yet rendered.
C18_Witness ==
    /\ pc = "render" /\ View = "detail"
    /\ DetailMaxScroll > 0
    /\ detail_scroll > DetailMaxScroll
    /\ ~DetailRaises(events[selected + 1], width)
    /\ height >= 3

(***************************************************************************)
(* C19.  In every reachable state detail_mode implies that events is not   *)
(* empty; so whenever the list is on screen, Escape/q leaves the loop and  *)
(* Up/Down move selected.                                                  *)
(***************************************************************************)
C19_DetailModeHasEvents ==
    /\ [](detail_mode => events # <<>>)
    /\ [][(KeyEsc /\ View = "list") => pc' = "exit"]_vars
    /\ [][(KeyUp /\ View = "list") => selected' = Max(0, selected - 1)]_vars

(***************************************************************************)
(* C20.  In every reachable state, if the status is "loaded" or "loaded    *)
(* (unchanged)" then last_changed_at has been set.                         *)
(***************************************************************************)
C20_LoadedHasChangeTime ==
    last_status \in {"loaded", "loaded (unchanged)"} => last_changed_at # None
====
